---- MODULE Spec2Model ----
(***************************************************************************)
(* Review handlers of internal/controller/http/v1/handler/review.go.       *)
(*                                                                         *)
(* The handlers (CreateReview, GetReview, GetReviews, UpdateReview,        *)
(* DeleteReview, SetReviewImage) are translated from review.go.  The       *)
(* review repository (h.UseCase.ReviewRepo), the storage client (h.MinIO)  *)
(* and the error helpers (h.HandleDbError, h.ReturnError) are defined in   *)
(* other packages; they are modelled from their documented contracts       *)
(* (specification sections 4.2, 4.3 and 4.4).                              *)
(*                                                                         *)
(* One request is one atomic action: the handler runs from its first line  *)
(* to the response.  The variable last is the context of the request just  *)
(* served (its inputs, the store before it, the repository and storage     *)
(* calls it made and the responses it wrote); the context is released      *)
(* before the next request is served.  created, touched and deleted are    *)
(* history variables used by the properties.                               *)
(***************************************************************************)
EXTENDS Integers, Sequences, FiniteSets, TLC

VARIABLES store, issued, clock, objects, tmp, keys, last, created, touched, deleted,
          inflight

vars == <<store, issued, clock, objects, tmp, keys, last, created, touched, deleted,
          inflight>>

\* ------------------------------------------------------------------ bounds

\* Number of reviews Create may issue in one run.
MaxCreates == 2
\* Number of storage keys SetReviewImage may generate in one run.
MaxUploads == 2

\* ------------------------------------------------------------ input domains

\* Well-formed UUID strings (business identifiers known to uuid.Parse).
B1 == "11111111-1111-1111-1111-111111111111"
B2 == "22222222-2222-2222-2222-222222222222"
UUIDs == {B1, B2}

\* Identifiers the repository's Create assigns, in the order it assigns them.
\* Identifiers are opaque: which fresh one a Create draws does not matter, so
\* the model draws them in a fixed order.
IdPool == <<"r1", "r2", "r3">>
\* Identifiers a client can put in a path: stored, deleted, never issued or
\* empty.
ClientIds == {"r1", "r2", ""}

\* Values of the sub header set by the authentication middleware; the
\* bodies below carry this user and another one.
Users == {"u1"}

\* Random prefixes uuid.New() produces for storage keys, in the order drawn.
KeyPool == <<"k1", "k2", "k3">>
FileNames == {"a.png"}
FileContents == {"A"}

\* Query-string values, as sequences of characters.
PageValues == {<<"2">>, <<"x">>}
LimitValues == {<<"1">>, <<"-", "1">>, <<"x">>}
BusinessValues == {"", "not-a-uuid", B1}

NoParam == [present |-> FALSE, value |-> <<>>]
Param(v) == [present |-> TRUE, value |-> v]

\* ------------------------------------------------------------------ entities

\* entity.Review; the zero value of the struct.
ZeroReview ==
    [id |-> "", business_id |-> "", user_id |-> "", feedback |-> "",
     rating |-> 0, photos |-> "", created_at |-> 0]

\* JSON bodies of POST /review that bind successfully.
CreateBodies ==
    {[ZeroReview EXCEPT !.business_id = B1, !.user_id = "u2",
                        !.feedback = "good", !.rating = 5],
     [ZeroReview EXCEPT !.id = "r1", !.business_id = B2, !.user_id = "u1",
                        !.feedback = "good", !.rating = 5]}

\* JSON bodies of PUT /review that bind successfully.
UpdateBodies ==
    {[ZeroReview EXCEPT !.id = i, !.business_id = B2, !.user_id = "u1",
                        !.feedback = "bad", !.rating = 1] : i \in {"r1", "r2"}}

NoBody == [valid |-> FALSE, review |-> ZeroReview]
BodiesOf(reviews) == {NoBody} \cup {[valid |-> TRUE, review |-> r] : r \in reviews}

NoFile == [present |-> FALSE, name |-> "", content |-> ""]
Files == {NoFile} \cup
         {[present |-> TRUE, name |-> n, content |-> c] :
             n \in FileNames, c \in FileContents}

\* Requests served at the same time, each by its own worker, and the files
\* they upload: the same original filename with different contents.
Workers == {"w1", "w2"}
ConcurrentFiles ==
    {NoFile} \cup {[present |-> TRUE, name |-> n, content |-> c] :
                      n \in FileNames, c \in {"A", "B"}}

NoQuery == [page |-> NoParam, limit |-> NoParam, business_id |-> NoParam]

\* ------------------------------------------------- library functions used

Digits == {"0", "1", "2", "3", "4", "5", "6", "7", "8", "9"}

DigitVal(c) ==
    CASE c = "0" -> 0 [] c = "1" -> 1 [] c = "2" -> 2 [] c = "3" -> 3
      [] c = "4" -> 4 [] c = "5" -> 5 [] c = "6" -> 6 [] c = "7" -> 7
      [] c = "8" -> 8 [] c = "9" -> 9

RECURSIVE DecimalValue(_)
DecimalValue(ds) ==
    IF ds = <<>> THEN 0
    ELSE DecimalValue(SubSeq(ds, 1, Len(ds) - 1)) * 10 + DigitVal(ds[Len(ds)])

\* strconv.Atoi on short inputs: an optional sign and at least one digit;
\* anything else is a syntax error, whose value is 0.
Atoi(s) ==
    LET signed == Len(s) > 0 /\ s[1] \in {"-", "+"}
        ds == IF signed THEN Tail(s) ELSE s
        ok == Len(ds) > 0 /\ \A i \in 1..Len(ds) : ds[i] \in Digits
        n == IF ok THEN DecimalValue(ds) ELSE 0
    IN  [val |-> IF ok /\ signed /\ s[1] = "-" THEN 0 - n ELSE n, err |-> ~ok]

\* gin Context.DefaultQuery: the value of the key when the key is present in
\* the query string (even empty), the default otherwise.
DefaultQuery(param, def) == IF param.present THEN param.value ELSE def

\* uuid.Parse(s) returns a nil error.
UuidParseOk(s) == s \in UUIDs

Min(a, b) == IF a < b THEN a ELSE b

\* ------------------------------------------------ repository (ReviewRepo)

Ids(st) == {st[i].id : i \in 1..Len(st)}
RECURSIVE IdSeq(_)
IdSeq(st) == IF st = <<>> THEN <<>> ELSE <<Head(st).id>> \o IdSeq(Tail(st))
Rows(st) == {st[i] : i \in 1..Len(st)}
RowOf(st, id) == CHOOSE r \in Rows(st) : r.id = id

Ok(val, st) == [err |-> "", val |-> val, store |-> st]
Fail(kind, st) == [err |-> kind, val |-> ZeroReview, store |-> st]

\* Create(entity) -> entity_with_id: a new identifier and creation timestamp.
RepoCreate(st, req, newId, now, dbOk) ==
    IF ~dbOk THEN Fail("DbError", st)
    ELSE LET row == [req EXCEPT !.id = newId, !.created_at = now]
         IN  Ok(row, Append(st, row))

\* GetSingle(id) -> entity: NotFound when no row matches.
RepoGetSingle(st, id, dbOk) ==
    IF ~dbOk THEN Fail("DbError", st)
    ELSE IF id \notin Ids(st) THEN Fail("NotFound", st)
    ELSE Ok(RowOf(st, id), st)

RECURSIVE Replaced(_, _)
Replaced(st, req) ==
    IF st = <<>> THEN <<>>
    ELSE <<IF Head(st).id = req.id
           THEN [req EXCEPT !.created_at = Head(st).created_at]
           ELSE Head(st)>> \o Replaced(Tail(st), req)

\* Update(entity): full-record replace keyed by the identifier; the
\* identifier and the creation timestamp are the server-assigned ones.
RepoUpdate(st, req, dbOk) ==
    IF ~dbOk THEN Fail("DbError", st)
    ELSE IF req.id \notin Ids(st) THEN Fail("NotFound", st)
    ELSE LET new == Replaced(st, req)
         IN  Ok(RowOf(new, req.id), new)

\* Delete(id): NotFound when the identifier does not exist.
RepoDelete(st, id, dbOk) ==
    IF ~dbOk THEN Fail("DbError", st)
    ELSE IF id \notin Ids(st) THEN Fail("NotFound", st)
    ELSE Ok(ZeroReview, SelectSeq(st, LAMBDA r : r.id # id))

\* A filter triple (column, operator, value) holds of a row; equality.
FilterHolds(row, f) == f.Type = "eq" => row[f.Column] = f.Value

Matching(st, filters) ==
    SelectSeq(st, LAMBDA r : \A i \in 1..Len(filters) : FilterHolds(r, filters[i]))

\* Row a comes strictly before row b under the order-by clauses, taken in
\* the order given.
RECURSIVE Before(_, _, _)
Before(a, b, orderBy) ==
    IF orderBy = <<>> THEN FALSE
    ELSE LET c == Head(orderBy)
         IN  IF a[c.Column] = b[c.Column] THEN Before(a, b, Tail(orderBy))
             ELSE IF c.Order = "desc" THEN a[c.Column] > b[c.Column]
             ELSE a[c.Column] < b[c.Column]

\* Stable insertion of a row into a sequence sorted under the clauses.
RECURSIVE Insert(_, _, _)
Insert(r, s, orderBy) ==
    IF s = <<>> THEN <<r>>
    ELSE IF Before(r, Head(s), orderBy) THEN <<r>> \o s
    ELSE <<Head(s)>> \o Insert(r, Tail(s), orderBy)

RECURSIVE Ordered(_, _)
Ordered(s, orderBy) ==
    IF s = <<>> THEN <<>>
    ELSE Insert(s[Len(s)], Ordered(SubSeq(s, 1, Len(s) - 1), orderBy), orderBy)

ZeroList == [reviews |-> <<>>, count |-> 0]

\* GetList(filter) -> (items, total_count): filter, order, then
\* offset = (page-1)*limit and limit.  A negative offset or limit is a
\* query the database rejects.
RepoGetList(st, req, dbOk) ==
    LET offset == (req.Page - 1) * req.Limit
        rows == Ordered(Matching(st, req.Filters), req.OrderBy)
    IN  IF ~dbOk \/ offset < 0 \/ req.Limit < 0
        THEN [err |-> "DbError", val |-> ZeroList]
        ELSE [err |-> "",
              val |-> [reviews |-> SubSeq(rows, offset + 1,
                                          Min(offset + req.Limit, Len(rows))),
                       count |-> Len(rows)]]

\* ----------------------------------------------- storage client (h.MinIO)

\* The public URL of the object stored under a key.
UrlOf(key) == "minio/" \o key

\* ------------------------------------------------------------- responses

ErrorBody(code, message) == [kind |-> "error", code |-> code, message |-> message]
ReviewBody(r) == [kind |-> "review", review |-> r]
ListBody(l) == [kind |-> "list", reviews |-> l.reviews, count |-> l.count]
MessageBody(m) == [kind |-> "message", message |-> m]
WrongFormatBody == [kind |-> "gin.H", key |-> "Error:",
                    value |-> "Wrong format type please write UUID"]
RawErrBody == [kind |-> "raw"]

Write(status, body) == [status |-> status, body |-> body]

\* h.ReturnError(ctx, code, message, status)
ReturnError(code, message, status) == <<Write(status, ErrorBody(code, message))>>

\* h.HandleDbError(ctx, err, message): TRUE when err is set, and then the
\* generic database-error response has been written.
HandleDbError(err) == err # ""
DbErrorWrites(message) == <<Write(400, ErrorBody("DbError", message))>>

\* --------------------------------------------------------------- handlers
\* A handler's outcome: the store after it, the repository and storage
\* operations it invoked, in order, the error each returned ("" for none),
\* and the responses it wrote, in order.

Outcome(st, calls, errs, writes) ==
    [store |-> st, calls |-> calls, errs |-> errs, writes |-> writes]

ZeroFilter == [Page |-> 0, Limit |-> 0, Filters |-> <<>>, OrderBy |-> <<>>]

\* Mutant: the user of the body is kept.
CreateReviewReq_BodyUser(body, sub) == body.review

\* CreateReview: req.UserID = ctx.GetHeader("sub").
CreateReviewReq(body, sub) == [body.review EXCEPT !.user_id = sub]

\* Mutant: the bound request is returned instead of the created entity.
CreateReviewRespond_Request(req, res) ==
    IF HandleDbError(res.err) THEN DbErrorWrites("Error creating review")
    ELSE <<Write(200, ReviewBody(req))>>

CreateReviewRespond(req, res) ==
    IF HandleDbError(res.err) THEN DbErrorWrites("Error creating review")
    ELSE <<Write(200, ReviewBody(res.val))>>

CreateReviewHandler(st, body, sub, newId, now, dbOk) ==
    IF HandleDbError(IF body.valid THEN "" ELSE "BindError")
    THEN Outcome(st, <<>>, <<>>, DbErrorWrites("Error getting review"))
    ELSE LET req == CreateReviewReq(body, sub)
             res == RepoCreate(st, req, newId, now, dbOk)
         IN  Outcome(res.store, <<"ReviewRepo.Create">>, <<res.err>>,
                     CreateReviewRespond(req, res))

\* Mutant: no return after the error response, so the review is written too.
GetReviewRespond_NoReturn(id, res) ==
    IF HandleDbError(res.err)
    THEN DbErrorWrites("Error getting review") \o <<Write(200, ReviewBody(res.val))>>
    ELSE <<Write(200, ReviewBody(res.val))>>

\* Mutant: only the identifier of the request is returned.
GetReviewRespond_IdOnly(id, res) ==
    IF HandleDbError(res.err) THEN DbErrorWrites("Error getting review")
    ELSE <<Write(200, ReviewBody([ZeroReview EXCEPT !.id = id]))>>

GetReviewRespond(id, res) ==
    IF HandleDbError(res.err) THEN DbErrorWrites("Error getting review")
    ELSE <<Write(200, ReviewBody(res.val))>>

GetReviewHandler(st, id, dbOk) ==
    LET res == RepoGetSingle(st, id, dbOk)
    IN  Outcome(res.store, <<"ReviewRepo.GetSingle">>, <<res.err>>,
                GetReviewRespond(id, res))

\* Mutant: the order-by clause asks for ascending order.
GetReviewsReq_Ascending(q) ==
    [Page |-> Atoi(DefaultQuery(q.page, <<"1">>)).val,
     Limit |-> Atoi(DefaultQuery(q.limit, <<"1", "0">>)).val,
     Filters |-> <<[Column |-> "business_id", Type |-> "eq",
                    Value |-> DefaultQuery(q.business_id, "")]>>,
     OrderBy |-> <<[Column |-> "created_at", Order |-> "asc"]>>]

\* Mutant: page and limit read from each other's query parameter.
GetReviewsReq_Swapped(q) ==
    [Page |-> Atoi(DefaultQuery(q.limit, <<"1", "0">>)).val,
     Limit |-> Atoi(DefaultQuery(q.page, <<"1">>)).val,
     Filters |-> <<[Column |-> "business_id", Type |-> "eq",
                    Value |-> DefaultQuery(q.business_id, "")]>>,
     OrderBy |-> <<[Column |-> "created_at", Order |-> "desc"]>>]

\* GetReviews: the entity.GetListFilter built from the query string.
GetReviewsReq(q) ==
    [Page |-> Atoi(DefaultQuery(q.page, <<"1">>)).val,
     Limit |-> Atoi(DefaultQuery(q.limit, <<"1", "0">>)).val,
     Filters |-> <<[Column |-> "business_id", Type |-> "eq",
                    Value |-> DefaultQuery(q.business_id, "")]>>,
     OrderBy |-> <<[Column |-> "created_at", Order |-> "desc"]>>]

\* Mutant: the emptiness test inverted (businessID == "").
BusinessIdRejected_Inverted(businessID) == ~UuidParseOk(businessID) /\ businessID = ""

\* GetReviews: _, err := uuid.Parse(businessID); err != nil && businessID != "".
BusinessIdRejected(businessID) == ~UuidParseOk(businessID) /\ businessID # ""

\* Mutant: an empty page answered as not found.
GetReviewsRespond_EmptyIs404(res) ==
    IF HandleDbError(res.err) THEN DbErrorWrites("Error getting reviews")
    ELSE IF res.val.reviews = <<>> THEN ReturnError("NotFound", "No reviews", 404)
    ELSE <<Write(200, ListBody(res.val))>>

GetReviewsRespond(res) ==
    IF HandleDbError(res.err) THEN DbErrorWrites("Error getting reviews")
    ELSE <<Write(200, ListBody(res.val))>>

\* Mutant: the filter is sent to the repository before the page is read, so
\* every request lists the first page.
GetReviewsHandler_PageDropped(st, q, dbOk) ==
    LET req == [GetReviewsReq(q) EXCEPT !.Page = 1]
        res == RepoGetList(st, req, dbOk)
    IN  IF BusinessIdRejected(req.Filters[1].Value)
        THEN Outcome(st, <<>>, <<>>, <<Write(404, WrongFormatBody)>>)
        ELSE Outcome(st, <<"ReviewRepo.GetList">>, <<res.err>>, GetReviewsRespond(res))

GetReviewsHandler(st, q, dbOk) ==
    LET req == GetReviewsReq(q)
        res == RepoGetList(st, req, dbOk)
    IN  IF BusinessIdRejected(req.Filters[1].Value)
        THEN Outcome(st, <<>>, <<>>, <<Write(404, WrongFormatBody)>>)
        ELSE Outcome(st, <<"ReviewRepo.GetList">>, <<res.err>>, GetReviewsRespond(res))

\* Mutant: the error of the repository is dropped.
UpdateReviewRespond_ErrorDropped(res) == <<Write(200, ReviewBody(res.val))>>

UpdateReviewRespond(res) ==
    IF HandleDbError(res.err) THEN DbErrorWrites("Error updating review")
    ELSE <<Write(200, ReviewBody(res.val))>>

\* Mutant: an update of an unknown identifier inserts the review.
UpdateReviewCall_Upsert(st, review, dbOk) ==
    IF dbOk /\ review.id \notin Ids(st) THEN Ok(review, Append(st, review))
    ELSE RepoUpdate(st, review, dbOk)

\* UpdateReview: the repository operation applied to the bound body.
UpdateReviewCall(st, review, dbOk) == RepoUpdate(st, review, dbOk)

UpdateReviewHandler(st, body, dbOk) ==
    IF ~body.valid
    THEN Outcome(st, <<>>, <<>>,
                 ReturnError("ErrorBadRequest", "Invalid request body", 400))
    ELSE LET res == UpdateReviewCall(st, body.review, dbOk)
         IN  Outcome(res.store, <<"ReviewRepo.Update">>, <<res.err>>,
                     UpdateReviewRespond(res))

\* Mutant: the error of the repository is dropped.
DeleteReviewRespond_ErrorDropped(res) ==
    <<Write(200, MessageBody("Review deleted successfully"))>>

DeleteReviewRespond(res) ==
    IF HandleDbError(res.err) THEN DbErrorWrites("Error deleting review")
    ELSE <<Write(200, MessageBody("Review deleted successfully"))>>

DeleteReviewHandler(st, id, dbOk) ==
    LET res == RepoDelete(st, id, dbOk)
    IN  Outcome(res.store, <<"ReviewRepo.Delete">>, <<res.err>>,
                DeleteReviewRespond(res))

TempPath(name) == "/tmp/" \o name
TmpPaths == {TempPath(n) : n \in FileNames}

\* Mutant: the key is the original filename without a random prefix.
StorageKey_NameOnly(random, name) == "upload-" \o name

\* Mutant: the key is the random identifier alone.
StorageKey_NoName(random, name) == random

\* SetReviewImage: filename := uuid.New().String() + "-" + file.Filename.
StorageKey(random, name) == random \o "-" \o name

\* h.MinIO.Upload(key, localPath): the object stored under key is the
\* content of the local file.
Uploaded(objs, key, content) ==
    {o \in objs : o.key # key} \cup {[key |-> key, content |-> content]}

\* SetReviewImage: updateReq := entity.Review{ID: reviewID, Photos: minioURL}.
SetReviewImageReq(reviewID, minioURL) ==
    [ZeroReview EXCEPT !.id = reviewID, !.photos = minioURL]

\* Mutant: the error of the repository is dropped.
SetReviewImageRespond_ErrorDropped(res) == <<Write(200, ReviewBody(res.val))>>

SetReviewImageRespond(res) ==
    IF HandleDbError(res.err) THEN DbErrorWrites("Error updating review image")
    ELSE <<Write(200, ReviewBody(res.val))>>

ImageOutcome(st, tm, objs, ks, calls, errs, writes) ==
    [store |-> st, tmp |-> tm, objects |-> objs, keys |-> ks,
     calls |-> calls, errs |-> errs, writes |-> writes]

\* Mutant: no return after the failed Upload, so Update runs with the empty
\* URL the failed Upload returned.
SetReviewImageHandler_NoReturn(st, tm, objs, ks, id, file, saveOk, random, storageOk, dbOk) ==
    IF id = ""
    THEN ImageOutcome(st, tm, objs, ks, <<>>, <<>>,
             ReturnError("ErrorBadRequest", "Review ID is required in path", 400))
    ELSE IF ~file.present
    THEN ImageOutcome(st, tm, objs, ks, <<>>, <<>>,
             ReturnError("ErrorBadRequest", "Error getting file", 400))
    ELSE IF ~saveOk
    THEN ImageOutcome(st, tm, objs, ks, <<>>, <<>>, <<Write(500, RawErrBody)>>)
    ELSE LET tempPath == TempPath(file.name)
             tm2 == [tm EXCEPT ![tempPath] = file.content]
             filename == StorageKey(random, file.name)
             ks2 == ks \cup {random}
             objs2 == IF storageOk THEN Uploaded(objs, filename, tm2[tempPath])
                      ELSE objs
             url == IF storageOk THEN UrlOf(filename) ELSE ""
             res == RepoUpdate(st, SetReviewImageReq(id, url), dbOk)
         IN  ImageOutcome(res.store, tm2, objs2, ks2,
                 <<"MinIO.Upload", "ReviewRepo.Update">>,
                 <<IF storageOk THEN "" ELSE "StorageError", res.err>>,
                 SetReviewImageRespond(res))

\* Mutant: the temporary copy is removed when the handler returns
\* (defer os.Remove(tempPath)).
SetReviewImageHandler_TempRemoved(st, tm, objs, ks, id, file, saveOk, random, storageOk, dbOk) ==
    IF id = ""
    THEN ImageOutcome(st, tm, objs, ks, <<>>, <<>>,
             ReturnError("ErrorBadRequest", "Review ID is required in path", 400))
    ELSE IF ~file.present
    THEN ImageOutcome(st, tm, objs, ks, <<>>, <<>>,
             ReturnError("ErrorBadRequest", "Error getting file", 400))
    ELSE IF ~saveOk
    THEN ImageOutcome(st, tm, objs, ks, <<>>, <<>>, <<Write(500, RawErrBody)>>)
    ELSE LET tempPath == TempPath(file.name)
             tm2 == [tm EXCEPT ![tempPath] = file.content]
             removed == [tm EXCEPT ![tempPath] = ""]
             filename == StorageKey(random, file.name)
             ks2 == ks \cup {random}
         IN  IF HandleDbError(IF storageOk THEN "" ELSE "StorageError")
             THEN ImageOutcome(st, removed, objs, ks2, <<"MinIO.Upload">>,
                      <<"StorageError">>,
                      DbErrorWrites("Error uploading review image"))
             ELSE LET objs2 == Uploaded(objs, filename, tm2[tempPath])
                      res == RepoUpdate(st, SetReviewImageReq(id, UrlOf(filename)), dbOk)
                  IN  ImageOutcome(res.store, removed, objs2, ks2,
                          <<"MinIO.Upload", "ReviewRepo.Update">>,
                          <<"", res.err>>, SetReviewImageRespond(res))

SetReviewImageHandler(st, tm, objs, ks, id, file, saveOk, random, storageOk, dbOk) ==
    IF id = ""
    THEN ImageOutcome(st, tm, objs, ks, <<>>, <<>>,
             ReturnError("ErrorBadRequest", "Review ID is required in path", 400))
    ELSE IF ~file.present
    THEN ImageOutcome(st, tm, objs, ks, <<>>, <<>>,
             ReturnError("ErrorBadRequest", "Error getting file", 400))
    ELSE IF ~saveOk
    THEN ImageOutcome(st, tm, objs, ks, <<>>, <<>>, <<Write(500, RawErrBody)>>)
    ELSE LET tempPath == TempPath(file.name)
             tm2 == [tm EXCEPT ![tempPath] = file.content]
             filename == StorageKey(random, file.name)
             ks2 == ks \cup {random}
         IN  IF HandleDbError(IF storageOk THEN "" ELSE "StorageError")
             THEN ImageOutcome(st, tm2, objs, ks2, <<"MinIO.Upload">>,
                      <<"StorageError">>,
                      DbErrorWrites("Error uploading review image"))
             ELSE LET objs2 == Uploaded(objs, filename, tm2[tempPath])
                      res == RepoUpdate(st, SetReviewImageReq(id, UrlOf(filename)), dbOk)
                  IN  ImageOutcome(res.store, tm2, objs2, ks2,
                          <<"MinIO.Upload", "ReviewRepo.Update">>,
                          <<"", res.err>>, SetReviewImageRespond(res))

\* ------------------------------------------------------------ state machine

NoRequest ==
    [op |-> "none", id |-> "", sub |-> "", body |-> NoBody, query |-> NoQuery,
     file |-> NoFile, dbOk |-> TRUE, storageOk |-> TRUE, saveOk |-> TRUE,
     pre |-> <<>>, preIssued |-> {}, preDeleted |-> {}, preObjects |-> {},
     key |-> "", filter |-> ZeroFilter, calls |-> <<>>, errs |-> <<>>, writes |-> <<>>]

\* A worker that serves no request.
Idle == [pc |-> "idle", id |-> "", file |-> NoFile, key |-> "", writes |-> <<>>]

Init ==
    /\ store = <<>>
    /\ issued = {}
    /\ clock = 1
    /\ objects = {}
    /\ tmp = [p \in TmpPaths |-> ""]
    /\ keys = {}
    /\ last = NoRequest
    /\ created = {}
    /\ touched = {}
    /\ deleted = {}
    /\ inflight = [w \in Workers |-> Idle]

\* The request just served, with the state it found.
Served(op, out) ==
    [NoRequest EXCEPT !.op = op, !.pre = store, !.preIssued = issued,
                      !.preDeleted = deleted, !.preObjects = objects,
                      !.calls = out.calls, !.errs = out.errs,
                      !.writes = out.writes]

Status(req) == req.writes[Len(req.writes)].status
ResponseBody(req) == req.writes[Len(req.writes)].body

CreateReview ==
    /\ last = NoRequest
    /\ Cardinality(issued) < MaxCreates
    /\ \E body \in BodiesOf(CreateBodies), sub \in Users, dbOk \in BOOLEAN :
          LET newId == IdPool[Cardinality(issued) + 1]
              out == CreateReviewHandler(store, body, sub, newId, clock, dbOk)
              stored == out.store # store
              req == [Served("CreateReview", out) EXCEPT
                         !.body = body, !.sub = sub, !.dbOk = dbOk]
          IN  /\ store' = out.store
              /\ issued' = IF stored THEN issued \cup {newId} ELSE issued
              /\ clock' = IF stored THEN clock + 1 ELSE clock
              /\ last' = req
              /\ created' = IF Status(req) = 200
                            THEN created \cup {ResponseBody(req).review}
                            ELSE created
    /\ UNCHANGED <<objects, tmp, keys, touched, deleted, inflight>>

GetReview ==
    /\ last = NoRequest
    /\ \E id \in ClientIds, dbOk \in BOOLEAN :
          LET out == GetReviewHandler(store, id, dbOk)
          IN  /\ store' = out.store
              /\ last' = [Served("GetReview", out) EXCEPT !.id = id, !.dbOk = dbOk]
    /\ UNCHANGED <<issued, clock, objects, tmp, keys, created, touched, deleted, inflight>>

Queries ==
    {[page |-> p, limit |-> l, business_id |-> b] :
        p \in {NoParam} \cup {Param(v) : v \in PageValues},
        l \in {NoParam} \cup {Param(v) : v \in LimitValues},
        b \in {NoParam} \cup {Param(v) : v \in BusinessValues}}

GetReviews ==
    /\ last = NoRequest
    /\ \E q \in Queries, dbOk \in BOOLEAN :
          LET out == GetReviewsHandler(store, q, dbOk)
          IN  /\ store' = out.store
              /\ last' = [Served("GetReviews", out) EXCEPT
                             !.query = q, !.dbOk = dbOk,
                             !.filter = IF out.calls = <<>> THEN ZeroFilter
                                        ELSE GetReviewsReq(q)]
    /\ UNCHANGED <<issued, clock, objects, tmp, keys, created, touched, deleted, inflight>>

UpdateReview ==
    /\ last = NoRequest
    /\ \E body \in BodiesOf(UpdateBodies), dbOk \in BOOLEAN :
          LET out == UpdateReviewHandler(store, body, dbOk)
          IN  /\ store' = out.store
              /\ last' = [Served("UpdateReview", out) EXCEPT
                             !.body = body, !.id = body.review.id, !.dbOk = dbOk]
              /\ touched' = IF out.store # store
                            THEN touched \cup {body.review.id} ELSE touched
              /\ deleted' = deleted \cup (Ids(store) \ Ids(out.store))
    /\ UNCHANGED <<issued, clock, objects, tmp, keys, created, inflight>>

DeleteReview ==
    /\ last = NoRequest
    /\ \E id \in ClientIds, dbOk \in BOOLEAN :
          LET out == DeleteReviewHandler(store, id, dbOk)
          IN  /\ store' = out.store
              /\ last' = [Served("DeleteReview", out) EXCEPT !.id = id, !.dbOk = dbOk]
              /\ touched' = IF out.store # store THEN touched \cup {id} ELSE touched
              /\ deleted' = deleted \cup (Ids(store) \ Ids(out.store))
    /\ UNCHANGED <<issued, clock, objects, tmp, keys, created, inflight>>

SetReviewImage ==
    /\ last = NoRequest
    /\ Cardinality(keys) < MaxUploads
    /\ \E id \in ClientIds, file \in Files, saveOk \in BOOLEAN,
          storageOk \in BOOLEAN, dbOk \in BOOLEAN :
          LET random == KeyPool[Cardinality(keys) + 1]
              out == SetReviewImageHandler(store, tmp, objects, keys, id, file,
                                           saveOk, random, storageOk, dbOk)
          IN  /\ store' = out.store
              /\ tmp' = out.tmp
              /\ objects' = out.objects
              /\ keys' = out.keys
              /\ last' = [Served("SetReviewImage", out) EXCEPT
                             !.id = id, !.file = file, !.dbOk = dbOk,
                             !.storageOk = storageOk, !.saveOk = saveOk,
                             !.key = IF out.keys = keys THEN ""
                                     ELSE StorageKey(random, file.name)]
              /\ touched' = IF out.store # store THEN touched \cup {id} ELSE touched
              /\ deleted' = deleted \cup (Ids(store) \ Ids(out.store))
    /\ UNCHANGED <<issued, clock, created, inflight>>

\* The request is over: its context goes back to the pool and the next
\* request starts from a reset one.
Release ==
    /\ last # NoRequest
    /\ last' = NoRequest
    /\ UNCHANGED <<store, issued, clock, objects, tmp, keys, created, touched, deleted, inflight>>

Next ==
    \/ Release
    \/ CreateReview
    \/ GetReview
    \/ GetReviews
    \/ UpdateReview
    \/ DeleteReview
    \/ SetReviewImage

Spec == Init /\ [][Next]_vars

\* ---------------------------------------- SetReviewImage, step by step
\* The same handler with its file-system, storage and repository steps as
\* separate actions, so that requests served by different workers interleave.

Answered(w, writes) ==
    [inflight EXCEPT ![w].pc = "done", ![w].writes = writes]

\* reviewID := ctx.Param("id"); file, err := ctx.FormFile("file").
ImageRequest(w) ==
    /\ inflight[w].pc = "idle"
    /\ Cardinality(keys)
          + Cardinality({v \in Workers : inflight[v].pc \in {"save", "upload"}})
          < MaxUploads
    /\ \E id \in ClientIds, file \in ConcurrentFiles :
          inflight' =
             IF id = ""
             THEN Answered(w, ReturnError("ErrorBadRequest",
                                          "Review ID is required in path", 400))
             ELSE IF ~file.present
             THEN Answered(w, ReturnError("ErrorBadRequest", "Error getting file", 400))
             ELSE [inflight EXCEPT ![w] = [Idle EXCEPT !.pc = "save", !.id = id,
                                                       !.file = file]]
    /\ UNCHANGED <<store, issued, clock, objects, tmp, keys, last, created,
                   touched, deleted>>

\* ctx.SaveUploadedFile(file, "/tmp/" + file.Filename).
ImageSave(w) ==
    /\ inflight[w].pc = "save"
    /\ \E saveOk \in BOOLEAN :
          IF ~saveOk
          THEN /\ inflight' = Answered(w, <<Write(500, RawErrBody)>>)
               /\ tmp' = tmp
          ELSE /\ inflight' = [inflight EXCEPT ![w].pc = "upload"]
               /\ tmp' = [tmp EXCEPT ![TempPath(inflight[w].file.name)] =
                                        inflight[w].file.content]
    /\ UNCHANGED <<store, issued, clock, objects, keys, last, created,
                   touched, deleted>>

\* filename := uuid.New().String() + "-" + file.Filename;
\* h.MinIO.Upload(filename, tempPath).
ImageUpload(w) ==
    /\ inflight[w].pc = "upload"
    /\ \E storageOk \in BOOLEAN :
          LET random == KeyPool[Cardinality(keys) + 1]
              filename == StorageKey(random, inflight[w].file.name)
              tempPath == TempPath(inflight[w].file.name)
          IN  /\ keys' = keys \cup {random}
              /\ IF HandleDbError(IF storageOk THEN "" ELSE "StorageError")
                 THEN /\ inflight' = Answered(w,
                                        DbErrorWrites("Error uploading review image"))
                      /\ objects' = objects
                 ELSE /\ inflight' = [inflight EXCEPT ![w].pc = "update",
                                                      ![w].key = filename]
                      /\ objects' = Uploaded(objects, filename, tmp[tempPath])
    /\ UNCHANGED <<store, issued, clock, tmp, last, created, touched, deleted>>

\* h.UseCase.ReviewRepo.Update(ctx, updateReq) and the response.
ImageUpdate(w) ==
    /\ inflight[w].pc = "update"
    /\ \E dbOk \in BOOLEAN :
          LET res == RepoUpdate(store,
                        SetReviewImageReq(inflight[w].id, UrlOf(inflight[w].key)),
                        dbOk)
          IN  /\ store' = res.store
              /\ inflight' = Answered(w, SetReviewImageRespond(res))
    /\ UNCHANGED <<issued, clock, objects, tmp, keys, last, created,
                   touched, deleted>>

\* The request is over and the worker takes the next one.
ImageDone(w) ==
    /\ inflight[w].pc = "done"
    /\ inflight' = [inflight EXCEPT ![w] = Idle]
    /\ UNCHANGED <<store, issued, clock, objects, tmp, keys, last, created,
                   touched, deleted>>

NextConc ==
    \/ Release
    \/ CreateReview
    \/ \E w \in Workers : ImageRequest(w)
    \/ \E w \in Workers : ImageSave(w)
    \/ \E w \in Workers : ImageUpload(w)
    \/ \E w \in Workers : ImageUpdate(w)
    \/ \E w \in Workers : ImageDone(w)

SpecConc == Init /\ [][NextConc]_vars

\* ------------------------------------------------------------- properties

\* What the client asked for, read from the query string of the request.
AskedPage(req) == Atoi(DefaultQuery(req.query.page, <<"1">>)).val
AskedLimit(req) == Atoi(DefaultQuery(req.query.limit, <<"1", "0">>)).val
AskedBusiness(req) == DefaultQuery(req.query.business_id, "")

\* The reviews of a business, latest first: the store is kept in creation
\* order, so this is the reverse of the matching rows.
RECURSIVE Reverse(_)
Reverse(s) == IF s = <<>> THEN <<>> ELSE Reverse(Tail(s)) \o <<Head(s)>>
ReviewsOf(st, businessID) ==
    Reverse(SelectSeq(st, LAMBDA r : r.business_id = businessID))

\* C1: GetReviews with a business_id that is non-empty and not a valid UUID
\* answers 404 with the body {"Error:": "Wrong format type please write
\* UUID"}; the repository's GetList is not invoked and the store is unchanged.
C1_MalformedBusinessIdIs404 ==
    (last.op = "GetReviews" /\ AskedBusiness(last) # ""
                            /\ ~UuidParseOk(AskedBusiness(last)))
    => /\ last.writes = <<Write(404, WrongFormatBody)>>
       /\ "ReviewRepo.GetList" \notin {last.calls[i] : i \in 1..Len(last.calls)}
       /\ store = last.pre

C1_Witness ==
    /\ last.op = "GetReviews"
    /\ AskedBusiness(last) = "not-a-uuid"
    /\ Status(last) = 404
    /\ Len(store) = 2

\* C2 (as claimed): GetReviews with business_id empty or absent, the default
\* page and limit and a reachable database answers 200 with all reviews, the
\* reviews of every business included.
C2_EmptyBusinessIdListsAll ==
    (last.op = "GetReviews" /\ AskedBusiness(last) = "" /\ last.dbOk
        /\ ~last.query.page.present /\ ~last.query.limit.present)
    => /\ Status(last) = 200
       /\ ResponseBody(last).count = Len(last.pre)
       /\ \A i \in 1..Len(last.pre) :
             \E j \in 1..Len(ResponseBody(last).reviews) :
                ResponseBody(last).reviews[j] = last.pre[i]

\* C3: a list response holds at most limit reviews, and its count is the
\* number of stored reviews matching the filter, whatever the page and limit.
C3_PageSizeAndTotalCount ==
    (last.op = "GetReviews" /\ Status(last) = 200)
    => /\ last.calls = <<"ReviewRepo.GetList">>
       /\ last.filter.Limit = AskedLimit(last)
       /\ Len(ResponseBody(last).reviews) <= AskedLimit(last)
       /\ ResponseBody(last).count =
             Cardinality({i \in 1..Len(last.pre) :
                             last.pre[i].business_id = AskedBusiness(last)})

C3_Witness ==
    /\ last.op = "GetReviews"
    /\ Status(last) = 200
    /\ AskedLimit(last) = 1
    /\ Len(ResponseBody(last).reviews) = 1
    /\ ResponseBody(last).count = 2

\* C4: with a reachable database and a positive page and limit, a page beyond
\* the last one, or a filter matching no review, is answered 200 with an empty
\* sequence and the total count of matching reviews.
C4_EmptyPageIsNotAnError ==
    LET total == Len(ReviewsOf(last.pre, AskedBusiness(last)))
    IN  (last.op = "GetReviews" /\ last.dbOk
            /\ (AskedBusiness(last) = "" \/ UuidParseOk(AskedBusiness(last)))
            /\ AskedPage(last) >= 1 /\ AskedLimit(last) >= 1
            /\ (AskedPage(last) - 1) * AskedLimit(last) >= total)
        => /\ last.writes = <<Write(200, [kind |-> "list", reviews |-> <<>>,
                                          count |-> total])>>
           /\ last.errs = <<"">>

C4_Witness ==
    /\ last.op = "GetReviews"
    /\ AskedPage(last) = 2
    /\ Status(last) = 200
    /\ ResponseBody(last).reviews = <<>>
    /\ ResponseBody(last).count = 1

\* The query string asking for page p (one digit) of size l (one digit).
DigitChar == <<"1", "2", "3", "4", "5", "6", "7", "8", "9">>
PageQuery(p, l, businessID) ==
    [page |-> Param(<<DigitChar[p]>>), limit |-> Param(<<DigitChar[l]>>),
     business_id |-> Param(businessID)]

\* The page p of size l of a business, as GetReviews answers it now.
PageNow(p, l, businessID) ==
    ResponseBody(GetReviewsHandler(store, PageQuery(p, l, businessID), TRUE)).reviews

\* The concatenation of the first n of the given pages.
RECURSIVE Concatenated(_, _)
Concatenated(pages, n) ==
    IF n = 0 THEN <<>> ELSE Concatenated(pages, n - 1) \o pages[n]

Elements(s) == {s[i] : i \in 1..Len(s)}

MaxLimit == 3

\* C5: a list response is the slice of the filtered, latest-first sequence
\* that starts at offset (page-1)*limit and has at most limit reviews; for a
\* fixed store (between two requests) and limit l >= 1 the pages are pairwise
\* disjoint and their concatenation is the whole filtered sequence in order.
C5_PagesAreSlices ==
    /\ (last.op = "GetReviews" /\ Status(last) = 200)
       => LET all == ReviewsOf(last.pre, AskedBusiness(last))
              offset == (AskedPage(last) - 1) * AskedLimit(last)
          IN  ResponseBody(last).reviews =
                 SubSeq(all, offset + 1, Min(offset + AskedLimit(last), Len(all)))
    /\ last = NoRequest
       => \A businessID \in UUIDs \cup {""}, l \in 1..MaxLimit :
             LET all == ReviewsOf(store, businessID)
                 n == Len(all) + 1
                 pages == [p \in 1..n |-> PageNow(p, l, businessID)]
             IN  /\ Concatenated(pages, n) = all
                 /\ \A p1, p2 \in 1..n :
                       p1 # p2 => Elements(pages[p1]) \cap Elements(pages[p2]) = {}

C5_Witness ==
    /\ last.op = "GetReviews"
    /\ Status(last) = 200
    /\ AskedPage(last) = 2
    /\ AskedLimit(last) = 1
    /\ Len(ReviewsOf(last.pre, AskedBusiness(last))) = 2
    /\ ResponseBody(last).reviews = <<last.pre[1]>>

\* C6: a successful CreateReview returns a review whose identifier is not
\* empty and was issued by no earlier Create, deleted reviews included.
C6_CreatedIdIsFresh ==
    (last.op = "CreateReview" /\ Status(last) = 200)
    => /\ ResponseBody(last).review.id # ""
       /\ ResponseBody(last).review.id \notin last.preIssued
       /\ ResponseBody(last).review.id \notin Ids(last.pre) \cup last.preDeleted
       /\ \A r \in created :
             r.id = ResponseBody(last).review.id => r = ResponseBody(last).review

C6_Witness ==
    /\ last.op = "CreateReview"
    /\ Status(last) = 200
    /\ last.preDeleted # {}
    /\ last.pre = <<>>

\* C7: no two stored reviews share an identifier, and UpdateReview and
\* SetReviewImage leave the identifiers of the stored reviews as they were.
C7_IdsUniqueAndImmutable ==
    /\ \A i, j \in 1..Len(store) : store[i].id = store[j].id => i = j
    /\ last.op \in {"UpdateReview", "SetReviewImage"}
       => IdSeq(store) = IdSeq(last.pre)

C7_Witness ==
    /\ last.op = "SetReviewImage"
    /\ Status(last) = 200
    /\ Len(store) = 2
    /\ store # last.pre
    /\ touched = {"r1", "r2"}

\* C8: GetReview on the identifier returned by a CreateReview, with no write
\* to that review in between, returns the review the create returned, equal
\* in every field.
C8_CreateGetRoundTrip ==
    \A r \in created :
       (last.op = "GetReview" /\ last.id = r.id /\ r.id \notin touched /\ last.dbOk)
       => last.writes = <<Write(200, ReviewBody(r))>>

C8_Witness ==
    /\ last.op = "GetReview"
    /\ Status(last) = 200
    /\ last.id \notin touched
    /\ \E r \in created : r.id = last.id /\ ResponseBody(last).review = r
    /\ Cardinality(created) = 2

\* C9: GetReview and UpdateReview for an identifier that is not stored fail
\* with NotFound (when the database is reachable), are answered with an HTTP
\* 400 error, and leave the stored reviews unchanged.
C9_UnknownIdIsNotFound ==
    (/\ last.op \in {"GetReview", "UpdateReview"}
     /\ last.op = "UpdateReview" => last.body.valid
     /\ last.id \notin Ids(last.pre))
    => /\ Len(last.writes) = 1
       /\ Status(last) = 400
       /\ ResponseBody(last).kind = "error"
       /\ last.errs = <<IF last.dbOk THEN "NotFound" ELSE "DbError">>
       /\ store = last.pre

C9_Witness ==
    /\ last.op = "UpdateReview"
    /\ last.body.valid
    /\ last.dbOk
    /\ last.id \in last.preIssued
    /\ last.id \notin Ids(last.pre)
    /\ last.pre # <<>>
    /\ Status(last) = 400

\* C10: DeleteReview on a stored identifier (database reachable) answers 200
\* with a message and removes exactly that review; DeleteReview and GetReview
\* on a deleted identifier are answered 400; a deleted identifier is never
\* stored again.
C10_DeleteIsNotIdempotent ==
    /\ (last.op = "DeleteReview" /\ last.id \in Ids(last.pre) /\ last.dbOk)
       => /\ last.writes =
                <<Write(200, MessageBody("Review deleted successfully"))>>
          /\ store = SelectSeq(last.pre, LAMBDA r : r.id # last.id)
          /\ Len(store) = Len(last.pre) - 1
    /\ (last.op \in {"DeleteReview", "GetReview"} /\ last.id \in last.preDeleted)
       => /\ Status(last) = 400
          /\ last.errs = <<IF last.dbOk THEN "NotFound" ELSE "DbError">>
          /\ store = last.pre
    /\ deleted \cap Ids(store) = {}

C10_Witness ==
    /\ last.op = "DeleteReview"
    /\ last.dbOk
    /\ last.id \in last.preDeleted
    /\ Status(last) = 400
    /\ Len(store) = 1

\* The stored review with the identifier of the request.
Stored(id) == RowOf(store, id)

\* C11: SetReviewImage with a stored identifier and a file answers 200 with
\* photos set to one URL that contains the uploaded filename; after several
\* successful uploads for a review, photos is the URL of the latest one only.
C11_PhotosOverwritten ==
    (last.op = "SetReviewImage" /\ last.id \in Ids(last.pre) /\ last.file.present
        /\ last.saveOk /\ last.storageOk /\ last.dbOk)
    => /\ Status(last) = 200
       /\ ResponseBody(last).kind = "review"
       /\ ResponseBody(last).review = Stored(last.id)
       /\ \E i \in 1..Len(KeyPool) :
             Stored(last.id).photos =
                "minio/" \o KeyPool[i] \o "-" \o last.file.name
       /\ Stored(last.id).photos = UrlOf(last.key)
       /\ Stored(last.id).photos # RowOf(last.pre, last.id).photos
       /\ \A o \in last.preObjects : Stored(last.id).photos # UrlOf(o.key)

C11_Witness ==
    /\ last.op = "SetReviewImage"
    /\ Status(last) = 200
    /\ last.id \in Ids(last.pre)
    /\ RowOf(last.pre, last.id).photos # ""
    /\ Stored(last.id).photos = UrlOf(last.key)
    /\ Cardinality(objects) = 2

\* The operations a request invoked, and how often it invoked one of them.
CallsOf(req) == {req.calls[i] : i \in 1..Len(req.calls)}
TimesCalled(req, name) == Cardinality({i \in 1..Len(req.calls) : req.calls[i] = name})
RepoOperations ==
    {"ReviewRepo.Create", "ReviewRepo.GetSingle", "ReviewRepo.GetList",
     "ReviewRepo.Update", "ReviewRepo.Delete"}

\* C12 (as claimed): every response of a review handler with a status other
\* than 200 carries a JSON body with the fields code and message.
C12_FailureBodyHasCodeAndMessage ==
    (last.op # "none" /\ Status(last) # 200)
    => /\ ResponseBody(last).kind = "error"
       /\ {"code", "message"} \subseteq DOMAIN ResponseBody(last)

\* C13 (as claimed): CreateReview and UpdateReview with an absent or
\* malformed JSON body answer 400 with an error of the BadRequest kind, the
\* repository's Create or Update is not invoked and the store is unchanged.
C13_BadBodyIsBadRequest ==
    (last.op \in {"CreateReview", "UpdateReview"} /\ ~last.body.valid)
    => /\ Status(last) = 400
       /\ ResponseBody(last).kind = "error"
       /\ ResponseBody(last).code = "ErrorBadRequest"
       /\ CallsOf(last) \cap {"ReviewRepo.Create", "ReviewRepo.Update"} = {}
       /\ store = last.pre

\* C14 (as claimed): the filter GetReviews passes to GetList has page >= 1
\* and limit >= 1, and page = 1 and limit = 10 when the parameters are
\* absent, whatever the page and limit of the query string are.
C14_PageAndLimitPositive ==
    (last.op = "GetReviews" /\ "ReviewRepo.GetList" \in CallsOf(last))
    => /\ last.filter.Page >= 1
       /\ last.filter.Limit >= 1
       /\ ~last.query.page.present => last.filter.Page = 1
       /\ ~last.query.limit.present => last.filter.Limit = 10

\* C15: nothing is retried and an error is translated once: a request
\* invokes each repository or storage operation at most once, makes at most
\* one database call, and writes exactly one response; an operation that
\* fails is the last one invoked and the response is then not a 200.
C15_NoRetryOneResponse ==
    last.op # "none"
    => /\ Len(last.writes) = 1
       /\ \A name \in CallsOf(last) : TimesCalled(last, name) = 1
       /\ Cardinality({i \in 1..Len(last.calls) :
                          last.calls[i] \in RepoOperations}) <= 1
       /\ Len(last.errs) = Len(last.calls)
       /\ \A i \in 1..Len(last.errs) :
             last.errs[i] # "" => i = Len(last.errs) /\ Status(last) # 200

C15_Witness ==
    /\ last.op = "SetReviewImage"
    /\ last.calls = <<"MinIO.Upload", "ReviewRepo.Update">>
    /\ last.errs = <<"", "DbError">>
    /\ Len(last.writes) = 1
    /\ Status(last) = 400

\* C16: GetReviews passes exactly one order-by clause, (created_at, desc),
\* and of any two reviews it returns the one created later comes first.
C16_LatestFirst ==
    (last.op = "GetReviews" /\ "ReviewRepo.GetList" \in CallsOf(last))
    => /\ last.filter.OrderBy = <<[Column |-> "created_at", Order |-> "desc"]>>
       /\ Status(last) = 200
          => \A i, j \in 1..Len(ResponseBody(last).reviews) :
                i < j => ResponseBody(last).reviews[i].created_at
                            > ResponseBody(last).reviews[j].created_at

C16_Witness ==
    /\ last.op = "GetReviews"
    /\ Status(last) = 200
    /\ Len(ResponseBody(last).reviews) = 2
    /\ ResponseBody(last).reviews[1].created_at
          > ResponseBody(last).reviews[2].created_at

\* C17: the user_id of a review stored by CreateReview is the sub header of
\* the request, whatever user_id the body carries.
C17_UserIsTheSubHeader ==
    /\ (last.op = "CreateReview" /\ store # last.pre)
       => /\ Len(store) = Len(last.pre) + 1
          /\ store[Len(store)].user_id = last.sub
          /\ Status(last) = 200 => ResponseBody(last).review.user_id = last.sub
    /\ \A r \in created : r.user_id \in Users

C17_Witness ==
    /\ last.op = "CreateReview"
    /\ Status(last) = 200
    /\ last.body.review.user_id = "u2"
    /\ last.sub = "u1"
    /\ store[Len(store)].user_id = "u1"

\* C18 (as claimed): a successful SetReviewImage on a stored review changes
\* only its photos: the other fields of the review are the same after the
\* call as before, and no other review changes.
C18_OnlyPhotosChanges ==
    (last.op = "SetReviewImage" /\ Status(last) = 200)
    => /\ Len(store) = Len(last.pre)
       /\ \A i \in 1..Len(store) :
             IF last.pre[i].id = last.id
             THEN [store[i] EXCEPT !.photos = last.pre[i].photos] = last.pre[i]
             ELSE store[i] = last.pre[i]

\* C19 (as claimed): however concurrent SetReviewImage requests interleave,
\* also when their files have the same original filename, the object a
\* request uploaded has the content of that request's own file.
C19_OwnContentUploaded ==
    \A w \in Workers :
        inflight[w].key # ""
        => [key |-> inflight[w].key, content |-> inflight[w].file.content]
              \in objects

\* C20: SetReviewImage does not compensate: when Upload succeeds and the
\* following Update fails, the response is an error, the store is unchanged
\* and the uploaded object stays in storage.
C20_NoCompensation ==
    (last.op = "SetReviewImage" /\ Len(last.errs) = 2
        /\ last.errs[1] = "" /\ last.errs[2] # "")
    => /\ last.calls = <<"MinIO.Upload", "ReviewRepo.Update">>
       /\ Status(last) = 400
       /\ ResponseBody(last).kind = "error"
       /\ store = last.pre
       /\ [key |-> last.key, content |-> last.file.content] \in objects
       /\ last.preObjects \subseteq objects
       /\ Cardinality(objects) = Cardinality(last.preObjects) + 1

C20_Witness ==
    /\ last.op = "SetReviewImage"
    /\ last.dbOk
    /\ last.id \notin Ids(last.pre)
    /\ last.errs = <<"", "NotFound">>
    /\ Status(last) = 400
    /\ [key |-> last.key, content |-> last.file.content] \in objects
    /\ Len(store) = 1

\* C21: SetReviewImage with an empty id, a missing file part, a failed save
\* of the temporary file or a failed Upload does not invoke Update and
\* leaves every stored review unchanged; with an empty id or a missing file
\* it does not invoke Upload either.
C21_EarlyFailureSkipsUpdate ==
    (last.op = "SetReviewImage"
        /\ (last.id = "" \/ ~last.file.present \/ ~last.saveOk \/ ~last.storageOk))
    => /\ "ReviewRepo.Update" \notin CallsOf(last)
       /\ store = last.pre
       /\ Status(last) # 200
       /\ (last.id = "" \/ ~last.file.present)
          => /\ "MinIO.Upload" \notin CallsOf(last)
             /\ objects = last.preObjects

C21_Witness ==
    /\ last.op = "SetReviewImage"
    /\ last.id \in Ids(last.pre)
    /\ last.file.present /\ last.saveOk /\ ~last.storageOk /\ last.dbOk
    /\ last.calls = <<"MinIO.Upload">>
    /\ RowOf(last.pre, last.id).photos # ""
    /\ store = last.pre

\* The random identifiers drawn for the keys of a set of objects.
KeysOf(objs) == {o.key : o \in objs}

\* C22: the storage key of SetReviewImage is a fresh random identifier, "-"
\* and the original filename; two uploads never use the same key, also for
\* the same filename and review, and no upload overwrites an object of an
\* earlier upload.
C22_KeysAreFresh ==
    /\ (last.op = "SetReviewImage" /\ last.key # "")
       => /\ \E i \in 1..Len(KeyPool) :
                /\ last.key = KeyPool[i] \o "-" \o last.file.name
                /\ KeyPool[i] \in keys
          /\ last.key \notin KeysOf(last.preObjects)
          /\ last.preObjects \subseteq objects
          /\ objects \subseteq last.preObjects
                \cup {[key |-> last.key, content |-> last.file.content]}
    /\ \A o1, o2 \in objects : o1.key = o2.key => o1 = o2
    /\ Cardinality(objects) <= Cardinality(keys)

C22_Witness ==
    /\ last.op = "SetReviewImage"
    /\ Status(last) = 200
    /\ Cardinality(last.preObjects) = 1
    /\ Cardinality(objects) = 2
    /\ \A o \in objects : UrlOf(o.key) = Stored(last.id).photos
                             \/ UrlOf(o.key) = RowOf(last.pre, last.id).photos

\* C23: SetReviewImage never deletes the temporary copy it saves: on every
\* path after the save (Upload fails, Update fails, success) the temporary
\* file of the uploaded filename exists, with the uploaded content, when the
\* request ends, and it is still there after later requests.
C23_TempFileStays ==
    /\ (last.op = "SetReviewImage" /\ last.id # "" /\ last.file.present
           /\ last.saveOk)
       => /\ Len(last.calls) >= 1
          /\ ("/tmp/" \o last.file.name) \in DOMAIN tmp
          /\ tmp["/tmp/" \o last.file.name] = last.file.content
          /\ tmp["/tmp/" \o last.file.name] # ""
    /\ keys # {} => \E p \in DOMAIN tmp : tmp[p] # ""

C23_Witness ==
    /\ last.op = "SetReviewImage"
    /\ last.errs = <<"", "DbError">>
    /\ tmp["/tmp/" \o last.file.name] = "A"
    /\ Cardinality(keys) = 2

====
